---- MODULE Spec2Model ----
(***************************************************************************)
(* Currency converter widget (src/demo/Converter.js): the rate cache, the  *)
(* conversion pipeline, the bounded history and the persisted preferences, *)
(* as a state machine over the handlers the page registers.                *)
(*                                                                         *)
(* Numbers are IEEE-754 binary64 values, as in JavaScript.  A finite       *)
(* double is held as a sign and a magnitude, the magnitude an exact        *)
(* multiple of 2^-FracBits written as a little-endian sequence of limbs    *)
(* in base 2^15 (no integer of the model exceeds 2^31).                    *)
(***************************************************************************)
EXTENDS Integers, Sequences, FiniteSets, TLC

(***************************************************************************)
(* Unsigned big integers: <<>> is 0, limbs little-endian, no high zeros.   *)
(***************************************************************************)
\* Limbs hold 15 bits, so that a limb product and its carry stay below 2^31.
Base == 128 * 256

RECURSIVE BNorm(_)
BNorm(a) ==
    IF a = <<>> THEN <<>>
    ELSE IF a[Len(a)] = 0 THEN BNorm(SubSeq(a, 1, Len(a) - 1)) ELSE a

RECURSIVE BFromInt(_)
BFromInt(n) == IF n = 0 THEN <<>> ELSE <<n % Base>> \o BFromInt(n \div Base)

RECURSIVE IntBitLen(_)
IntBitLen(n) == IF n = 0 THEN 0 ELSE 1 + IntBitLen(n \div 2)

LimbBits == IntBitLen(Base) - 1

Limb(a, i) == IF i <= Len(a) THEN a[i] ELSE 0

RECURSIVE BAddC(_, _, _, _)
BAddC(a, b, i, carry) ==
    IF i > Len(a) /\ i > Len(b)
    THEN IF carry = 0 THEN <<>> ELSE <<carry>>
    ELSE LET s == Limb(a, i) + Limb(b, i) + carry
         IN  <<s % Base>> \o BAddC(a, b, i + 1, s \div Base)

BAdd(a, b) == BNorm(BAddC(a, b, 1, 0))

RECURSIVE BMulSmallC(_, _, _, _)
BMulSmallC(a, k, i, carry) ==
    IF i > Len(a)
    THEN IF carry = 0 THEN <<>> ELSE <<carry>>
    ELSE LET p == a[i] * k + carry
         IN  <<p % Base>> \o BMulSmallC(a, k, i + 1, p \div Base)

\* a * k for 0 <= k < Base
BMulSmall(a, k) == BNorm(BMulSmallC(a, k, 1, 0))

Zeros(n) == [i \in 1..n |-> 0]

RECURSIVE BMulAcc(_, _, _)
BMulAcc(a, b, j) ==
    IF j > Len(b) THEN <<>>
    ELSE BAdd(IF b[j] = 0 THEN <<>> ELSE Zeros(j - 1) \o BMulSmall(a, b[j]),
              BMulAcc(a, b, j + 1))

BMul(a, b) == IF a = <<>> \/ b = <<>> THEN <<>> ELSE BMulAcc(a, b, 1)

RECURSIVE BDivSmallC(_, _, _, _)
\* quotient limbs of a \div k, from the high limb down; rem is the running remainder
BDivSmallC(a, k, i, rem) ==
    IF i = 0 THEN <<>>
    ELSE LET cur == rem * Base + a[i]
         IN  BDivSmallC(a, k, i - 1, cur % k) \o <<cur \div k>>

RECURSIVE BModSmallC(_, _, _, _)
BModSmallC(a, k, i, rem) ==
    IF i = 0 THEN rem ELSE BModSmallC(a, k, i - 1, (rem * Base + a[i]) % k)

\* a \div k and a % k for 0 < k < Base
BDivSmall(a, k) == BNorm(BDivSmallC(a, k, Len(a), 0))
BModSmall(a, k) == BModSmallC(a, k, Len(a), 0)

RECURSIVE Pow2(_)
Pow2(n) == IF n = 0 THEN 1 ELSE 2 * Pow2(n - 1)

\* a * 2^n
BShl(a, n) ==
    IF a = <<>> THEN <<>>
    ELSE BMulSmall(Zeros(n \div LimbBits) \o a, Pow2(n % LimbBits))

\* a \div 2^n
BShr(a, n) ==
    LET drop == n \div LimbBits
    IN  IF drop >= Len(a) THEN <<>>
        ELSE BDivSmall(SubSeq(a, drop + 1, Len(a)), Pow2(n % LimbBits))

BBitLen(a) == IF a = <<>> THEN 0 ELSE (Len(a) - 1) * LimbBits + IntBitLen(a[Len(a)])

BIsOdd(a) == a # <<>> /\ a[1] % 2 = 1

RECURSIVE BLessFrom(_, _, _)
BLessFrom(a, b, i) ==
    IF i = 0 THEN FALSE
    ELSE IF a[i] # b[i] THEN a[i] < b[i] ELSE BLessFrom(a, b, i - 1)

\* a < b
BLess(a, b) ==
    IF Len(a) # Len(b) THEN Len(a) < Len(b) ELSE BLessFrom(a, b, Len(a))

(***************************************************************************)
(* IEEE-754 binary64.  A value is NaN or a sign and a magnitude; the       *)
(* magnitude mag stands for mag / 2^FracBits.  Every double of magnitude   *)
(* at least 2^(52 - FracBits) (and below 2^53) is such a multiple, which   *)
(* covers the amounts, rates and products of the model.                    *)
(***************************************************************************)
FracBits == 64

NaN == [nan |-> TRUE, neg |-> FALSE, mag |-> <<>>]
Num(neg, mag) == [nan |-> FALSE, neg |-> neg /\ mag # <<>>, mag |-> mag]

\* Round to nearest, ties to even, at 53 significant bits.  v is a magnitude
\* in units of 2^-(2 * FracBits), sticky says that bits below v were dropped;
\* the result is in units of 2^-FracBits.
RoundToDouble(v, sticky) ==
    LET len == BBitLen(v)
    IN  IF len <= 53 THEN BShr(v, FracBits)
        ELSE LET s    == len - 53
                 q2   == BShr(v, s - 1)
                 st   == sticky \/ BShl(q2, s - 1) # v
                 q    == BShr(q2, 1)
                 up   == BIsOdd(q2) /\ (st \/ BIsOdd(q))
                 qr   == IF up THEN BAdd(q, <<1>>) ELSE q
             IN  IF s >= FracBits THEN BShl(qr, s - FracBits)
                 ELSE BShr(qr, FracBits - s)

\* x * y on doubles: the exact product, rounded once.
Mul(x, y) ==
    IF x.nan \/ y.nan THEN NaN
    ELSE Num(x.neg # y.neg, RoundToDouble(BMul(x.mag, y.mag), FALSE))

\* x < y on doubles (false when either is NaN).
Less(x, y) ==
    /\ ~x.nan /\ ~y.nan
    /\ IF x.neg # y.neg THEN x.neg
       ELSE IF x.neg THEN BLess(y.mag, x.mag) ELSE BLess(x.mag, y.mag)

(***************************************************************************)
(* Decimal text.  A text is a sequence of one-character strings.           *)
(***************************************************************************)
Digits == <<"0", "1", "2", "3", "4", "5", "6", "7", "8", "9">>
IsDigit(c) == \E d \in 1..10 : Digits[d] = c
DigitVal(c) == (CHOOSE d \in 1..10 : Digits[d] = c) - 1
IsSpace(c) == c = " "

RECURSIVE DigitRun(_, _)
\* length of the run of digits of t that starts at position i
DigitRun(t, i) ==
    IF i <= Len(t) /\ IsDigit(t[i]) THEN 1 + DigitRun(t, i + 1) ELSE 0

RECURSIVE SpaceRun(_, _)
SpaceRun(t, i) ==
    IF i <= Len(t) /\ IsSpace(t[i]) THEN 1 + SpaceRun(t, i + 1) ELSE 0

RECURSIVE DigitsValue(_)
\* the unsigned integer a sequence of digits writes
DigitsValue(ds) ==
    IF ds = <<>> THEN <<>>
    ELSE BAdd(BMulSmall(DigitsValue(SubSeq(ds, 1, Len(ds) - 1)), 10),
              BFromInt(DigitVal(ds[Len(ds)])))

RECURSIVE DivPow10(_, _)
\* <<v \div 10^k, whether a remainder was dropped>>
DivPow10(v, k) ==
    IF k = 0 THEN <<v, FALSE>>
    ELSE LET r == DivPow10(BDivSmall(v, 10), k - 1)
         IN  <<r[1], r[2] \/ BModSmall(v, 10) # 0>>

\* The double nearest to digits / 10^k.
DecimalToDouble(neg, digits, k) ==
    LET q == DivPow10(BShl(DigitsValue(digits), 2 * FracBits), k)
    IN  Num(neg, RoundToDouble(q[1], q[2]))

\* String.prototype.trim, for texts whose only white space is " "
RECURSIVE TrimEnd(_)
TrimEnd(t) ==
    IF t # <<>> /\ IsSpace(t[Len(t)]) THEN TrimEnd(SubSeq(t, 1, Len(t) - 1)) ELSE t
Trim(t) == TrimEnd(SubSeq(t, SpaceRun(t, 1) + 1, Len(t)))

\* parseFloat: leading white space skipped, an optional sign, then the longest
\* prefix of the form digits [. digits] or . digits; NaN when there is none.
\* (Exponents and the literal Infinity are not among the model's texts.)
ParseFloat(t) ==
    LET s0   == SpaceRun(t, 1) + 1
        sgn  == s0 <= Len(t) /\ t[s0] \in {"+", "-"}
        neg  == sgn /\ t[s0] = "-"
        s1   == IF sgn THEN s0 + 1 ELSE s0
        ni   == DigitRun(t, s1)
        dot  == s1 + ni <= Len(t) /\ t[s1 + ni] = "."
        nf   == IF dot THEN DigitRun(t, s1 + ni + 1) ELSE 0
    IN  IF ni = 0 /\ nf = 0 THEN NaN
        ELSE DecimalToDouble(neg,
                 SubSeq(t, s1, s1 + ni - 1) \o SubSeq(t, s1 + ni + 1, s1 + ni + nf), nf)

\* Number.prototype.toFixed(2) of a non-negative double below 10^21: the
\* integer n with n / 100 nearest the exact value, the larger n on a tie,
\* written with two decimals.  The string is held as the number n of hundredths.
ToFixed2(x) ==
    IF x.nan THEN [str |-> "NaN"]
    ELSE [str |-> "fixed2", neg |-> x.neg,
          hundredths |-> BShr(BAdd(BMulSmall(x.mag, 200), BShl(<<1>>, FracBits)),
                              FracBits + 1)]

(***************************************************************************)
(* The texts the model types into the amount field or receives as JSON     *)
(* number literals.  Their doubles are computed once, by the operators     *)
(* above, and looked up afterwards.                                        *)
(***************************************************************************)
TextEmpty == <<>>
TextBlank == <<" ", " ">>
TextLetters == <<"a", "b", "c">>
TextNegative == <<"-", "5">>
TextZero == <<"0">>
TextHalfCent == <<"0", ".", "0", "0", "5">>
TextCent == <<"0", ".", "0", "1">>
Text100 == <<"1", "0", "0">>
TextMax == <<"1", "0", "0", "0", "0", "0", "0", "0", "0", "0">>
TextOverMax == <<"1", "0", "0", "0", "0", "0", "0", "0", "0", "0", ".", "0", "1">>
Text092 == <<"0", ".", "9", "2">>
Text15 == <<"1", ".", "5">>
Text1 == <<"1">>

AmountTexts == {TextEmpty, TextBlank, TextLetters, TextNegative, TextZero, TextHalfCent,
                TextCent, Text100, TextMax, TextOverMax}
RateTexts == {Text092, Text15, Text1}

ParsedTexts == [t \in AmountTexts \cup RateTexts |-> ParseFloat(t)]
Parsed(t) == IF t \in DOMAIN ParsedTexts THEN ParsedTexts[t] ELSE ParseFloat(t)

\* (amount * rate).toFixed(2)
ConvertedValue(amount, rate) == ToFixed2(Mul(amount, rate))

ConvertedValues ==
    [a \in {ParsedTexts[t] : t \in AmountTexts}, r \in {ParsedTexts[t] : t \in RateTexts}
        |-> ConvertedValue(a, r)]
Converted(amount, rate) ==
    IF <<amount, rate>> \in DOMAIN ConvertedValues THEN ConvertedValues[amount, rate]
    ELSE ConvertedValue(amount, rate)

(***************************************************************************)
(* Configuration (CONFIG) and the values the page works with.              *)
(***************************************************************************)
CACHE_DURATION == 3600000
MAX_HISTORY_ITEMS == 5
\* the literals 0.01 and 1000000000, read as doubles
MIN_AMOUNT == Parsed(TextCent)
MAX_AMOUNT == Parsed(TextMax)

\* Currency codes the two selects offer (a subset of CURRENCY_SYMBOLS).
Currencies == {"USD", "EUR"}

Undefined == [undefined |-> TRUE]
\* localStorage.getItem: null for an absent key, else the stored string
Null == [present |-> FALSE]
Stored(string) == [present |-> TRUE, string |-> string]

MsgEnterAmount == "Please enter an amount to convert."
MsgValidNumber == "Please enter a valid number."
MsgAtLeast == "Amount must be at least 0.01."
MsgCannotExceed == "Amount cannot exceed 1,000,000,000."
MsgSameCurrency == "Please select different currencies to convert."
MsgNetwork == "Unable to fetch exchange rates. Please check your internet connection."
\* the message of the TypeError the engine raises on reading a property of
\* undefined or calling undefined (its wording is the engine's)
MsgTypeError == "TypeError"
ValidationMessages ==
    {MsgEnterAmount, MsgValidNumber, MsgAtLeast, MsgCannotExceed, MsgSameCurrency}

\* SameCurrency with the test left out
SameCurrencySkipped(from, to) == FALSE

\* the test `fromCurrency === toCurrency` of handleConvert
SameCurrency(from, to) == from = to

\* ValidateInput with the lower bound tested as amount <= 0
ValidateInputPositive(text, amount) ==
    IF text = <<>> \/ Trim(text) = <<>> THEN MsgEnterAmount
    ELSE IF amount.nan THEN MsgValidNumber
    ELSE IF amount.neg \/ amount.mag = <<>> THEN MsgAtLeast
    ELSE IF Less(MAX_AMOUNT, amount) THEN MsgCannotExceed
    ELSE "ok"

\* validateInput(amount), with text the value of the amount field: the
\* message shown, or "ok" when the function returns true.
ValidateInput(text, amount) ==
    IF text = <<>> \/ Trim(text) = <<>> THEN MsgEnterAmount
    ELSE IF amount.nan THEN MsgValidNumber
    ELSE IF Less(amount, MIN_AMOUNT) THEN MsgAtLeast
    ELSE IF Less(MAX_AMOUNT, amount) THEN MsgCannotExceed
    ELSE "ok"

(***************************************************************************)
(* The provider's answer to GET API_URL + base.                            *)
(*   reject   fetch() rejects (transport failure)                          *)
(*   status   a response whose ok is false                                 *)
(*   badjson  response.json() rejects                                      *)
(*   json     a parsed body; body.rates is Undefined or a table of rates   *)
(* A table maps currency codes to JSON number literals (texts).            *)
(***************************************************************************)
FailureKinds == {"reject", "status", "badjson"}
Failure(k) == [kind |-> k, rates |-> Undefined]
Body(rates) == [kind |-> "json", rates |-> rates]

\* data.rates after response.json(): every literal read as the nearest double
RatesOf(resp) ==
    IF resp.rates = Undefined THEN Undefined
    ELSE [c \in DOMAIN resp.rates |-> Parsed(resp.rates[c])]

(***************************************************************************)
(* getExchangeRates                                                        *)
(***************************************************************************)
\* CacheValid with the age compared by <= (the entry still served at
\* exactly CACHE_DURATION)
CacheValidInclusive(cache, cacheKey, t) ==
    /\ cache[cacheKey] # Undefined
    /\ t - cache[cacheKey].timestamp <= CACHE_DURATION

\* CacheValid with no test of the age
CacheValidAnyAge(cache, cacheKey, t) == cache[cacheKey] # Undefined

\* the cache test of getExchangeRates: an entry exists and is younger than
\* CACHE_DURATION
CacheValid(cache, cacheKey, t) ==
    /\ cache[cacheKey] # Undefined
    /\ t - cache[cacheKey].timestamp < CACHE_DURATION

\* CacheAfterFetch with the entry written before response.ok is looked at
CacheAfterFetchEager(cache, cacheKey, t, resp) ==
    IF resp.kind \in {"json", "status"}
    THEN [cache EXCEPT ![cacheKey] = [rates |-> RatesOf(resp), timestamp |-> t]]
    ELSE cache

\* CacheAfterFetch with an entry that is there left alone
CacheAfterFetchKeepsFirst(cache, cacheKey, t, resp) ==
    IF resp.kind = "json" /\ cache[cacheKey] = Undefined
    THEN [cache EXCEPT ![cacheKey] = [rates |-> RatesOf(resp), timestamp |-> t]]
    ELSE cache

\* the cache after the fetch started at time t has been answered by resp
CacheAfterFetch(cache, cacheKey, t, resp) ==
    IF resp.kind = "json"
    THEN [cache EXCEPT ![cacheKey] = [rates |-> RatesOf(resp), timestamp |-> t]]
    ELSE cache

(***************************************************************************)
(* handleConvert after the rates are there: rate, convertedValue and what  *)
(* displayResult does with them.                                           *)
(***************************************************************************)
Compute(amount, toCurrency, rates) ==
    IF rates = Undefined THEN [kind |-> "threw"]          \* rates[toCurrency] throws
    ELSE IF toCurrency \notin DOMAIN rates
         THEN [kind |-> "threw"]                          \* rate.toFixed(4) throws
    ELSE [kind |-> "converted", rate |-> rates[toCurrency],
          convertedValue |-> Converted(amount, rates[toCurrency])]

(***************************************************************************)
(* History and its persisted form.                                         *)
(***************************************************************************)
FirstN(seq, n) == SubSeq(seq, 1, IF Len(seq) < n THEN Len(seq) ELSE n)

\* Date.prototype.toISOString of the time t
ToISOString(t) == [iso |-> t]

HistoryItem(amount, fromCurrency, convertedValue, toCurrency, rate, t) ==
    [amount |-> amount, fromCurrency |-> fromCurrency, convertedValue |-> convertedValue,
     toCurrency |-> toCurrency, rate |-> rate, timestamp |-> ToISOString(t)]

\* HistoryAfterSave with the slice taken from the other end
HistoryAfterSaveOldest(history, item) ==
    LET added == <<item>> \o history
    IN  IF Len(added) > MAX_HISTORY_ITEMS THEN SubSeq(added, 2, Len(added)) ELSE added

\* conversionHistory after saveToHistory: unshift, then slice(0, MAX_HISTORY_ITEMS)
HistoryAfterSave(history, item) ==
    LET added == <<item>> \o history
    IN  IF Len(added) > MAX_HISTORY_ITEMS THEN FirstN(added, MAX_HISTORY_ITEMS) ELSE added

\* JSON.stringify of a number: its shortest round-trip literal, null when not finite
JsonNumber(x) == IF x.nan THEN [t |-> "null"] ELSE [t |-> "number", lit |-> x]
JsonString(s) == [t |-> "string", chars |-> s]
\* JSON.parse of such a member
FromJson(j) ==
    IF j.t = "null" THEN Null
    ELSE IF j.t = "number" THEN j.lit ELSE j.chars

ItemKeys == {"amount", "fromCurrency", "convertedValue", "toCurrency", "rate", "timestamp"}

\* JSON.stringify(conversionHistory)
JsonStringify(history) ==
    [wf |-> TRUE,
     val |-> [i \in 1..Len(history) |->
               [k \in ItemKeys |->
                  IF k \in {"amount", "rate"} THEN JsonNumber(history[i][k])
                  ELSE JsonString(history[i][k])]]]

\* StoredAfterSave with the new item written in place of the array
StoredAfterSaveItem(hist) == Stored(JsonStringify(<<hist[1]>>))

\* what saveToHistory writes under 'conversionHistory', hist being the array
\* after the unshift and the slice
StoredAfterSave(hist) == Stored(JsonStringify(hist))

\* StoredAfterClear with the emptied array written in place of the removal
StoredAfterClearEmptyArray == Stored(JsonStringify(<<>>))

\* the key 'conversionHistory' after clearHistory's removeItem
StoredAfterClear == Null

\* Texts the key 'conversionHistory' can hold that no saveToHistory wrote:
\* one that is not JSON (a truncated write), and the JSON texts null and {}.
TextTruncated == [wf |-> FALSE, val |-> <<>>]
TextJsonNull == [wf |-> TRUE, val |-> <<>>, json |-> "null"]
TextJsonObject == [wf |-> TRUE, val |-> <<>>, json |-> "object"]
CorruptTexts == {TextTruncated, TextJsonNull, TextJsonObject}

\* what kind of value JSON.parse makes of a well-formed text
JsonKind(text) == IF "json" \in DOMAIN text THEN text.json ELSE "array"

\* JSON.parse of a well-formed text
JsonParse(text) ==
    [i \in 1..Len(text.val) |-> [k \in DOMAIN text.val[i] |-> FromJson(text.val[i][k])]]

\* conversionHistory after loadFromLocalStorage, on the fresh page's empty array
LoadHistory(storedHistory) ==
    IF storedHistory = Null THEN <<>>
    ELSE IF storedHistory.string.wf THEN JsonParse(storedHistory.string)
    ELSE <<>>

\* the kind of value conversionHistory holds after loadFromLocalStorage: the
\* fresh page's array, the array of the catch clause, or what JSON.parse made
LoadKind(storedHistory) ==
    IF storedHistory = Null THEN "array"
    ELSE IF storedHistory.string.wf THEN JsonKind(storedHistory.string)
    ELSE "array"

\* whether historySection has class 'show' after displayHistory ran on a
\* value of this kind with these items (on null it throws before touching
\* the class, which shown gives; on an object it adds the class, then throws)
ShownAfterDisplay(kind, items, shown) ==
    IF kind = "array" THEN Len(items) # 0
    ELSE IF kind = "null" THEN shown
    ELSE TRUE

\* SavedPair with the second setItem writing the first select's value
SavedPairCopied(fromValue, toValue) == <<Stored(fromValue), Stored(fromValue)>>

\* the two keys saveToLocalStorage writes
SavedPair(fromValue, toValue) == <<Stored(fromValue), Stored(toValue)>>

\* SwappedSelection with the two assignments left out
SwappedSelectionKept(fromValue, toValue) == <<fromValue, toValue>>

\* the values of the two selects after handleSwap's two assignments
SwappedSelection(fromValue, toValue) == <<toValue, fromValue>>

\* the selection after loadFromLocalStorage, on the page's default selection
LoadPair(lastFrom, lastTo, defaults) ==
    <<IF lastFrom # Null /\ lastFrom.string # "" THEN lastFrom.string ELSE defaults[1],
      IF lastTo # Null /\ lastTo.string # "" THEN lastTo.string ELSE defaults[2]>>

(***************************************************************************)
(* State.                                                                  *)
(***************************************************************************)
VARIABLES
    exchangeRatesCache,   \* base currency -> Undefined or [rates, timestamp]
    conversionHistory,    \* sequence of history items, newest first
    historyKind,          \* the kind of value conversionHistory holds: "array", or
                          \* "null" / "object" after a load of such a JSON text
                          \* (conversionHistory is then <<>>)
    lastFromCurrency,     \* localStorage key 'lastFromCurrency'
    lastToCurrency,       \* localStorage key 'lastToCurrency'
    storedHistory,        \* localStorage key 'conversionHistory'
    fromCurrency,         \* elements.fromCurrency.value
    toCurrency,           \* elements.toCurrency.value
    resultShown,          \* resultSection has class 'show'
    errorShown,           \* errorAlert lacks class 'd-none'
    errorMessage,         \* errorMessage.textContent
    hideTimer,            \* some setTimeout(hideError) of showError is pending
    btnDisabled,          \* convertBtn.disabled
    spinnerShown,         \* loadingSpinner has class 'show'
    historyShown,         \* historySection has class 'show'
    calls,                \* the handleConvert invocations suspended on the network,
                          \* oldest first: their locals
    lastFetch,            \* base currency -> what is known of the provider fetches
                          \* of this page load (see Fetches)
    recorded,             \* every item saveToHistory was given since the history
                          \* was last empty by clearHistory, oldest first
    nConverts,            \* handleConvert invocations that passed validation, ever
    nFetches,             \* fetch() calls made, ever
    reloaded,             \* the page has been loaded again since its first load
    now                   \* Date.now()

vars == <<exchangeRatesCache, conversionHistory, historyKind, lastFromCurrency, lastToCurrency,
          storedHistory, fromCurrency, toCurrency, resultShown, errorShown,
          errorMessage, hideTimer, btnDisabled, spinnerShown, historyShown, calls,
          lastFetch, recorded, nConverts, nFetches, reloaded, now>>

cacheVars == <<exchangeRatesCache>>
historyVars == <<conversionHistory, historyKind, storedHistory, historyShown, recorded>>
prefVars == <<lastFromCurrency, lastToCurrency>>
selectVars == <<fromCurrency, toCurrency>>
viewVars == <<resultShown, errorShown, errorMessage, hideTimer, btnDisabled, spinnerShown>>

callVars == <<calls, lastFetch, nFetches>>

\* The selection the page's markup starts with.
DefaultFrom == "USD"
DefaultTo == "EUR"

\* What an observer of the network knows per base currency: the start time
\* of the call whose fetch was the last to be answered successfully (None
\* when there has been none).
None == -1
Fetches(good) == [good |-> good]

Remove(seq, i) == SubSeq(seq, 1, i - 1) \o SubSeq(seq, i + 1, Len(seq))

Init ==
    /\ exchangeRatesCache = [c \in Currencies |-> Undefined]
    /\ conversionHistory = <<>>
    /\ historyKind = "array"
    /\ lastFromCurrency = Null
    /\ lastToCurrency = Null
    /\ storedHistory = Null
    /\ fromCurrency = DefaultFrom
    /\ toCurrency = DefaultTo
    /\ resultShown = FALSE
    /\ errorShown = FALSE
    /\ errorMessage = ""
    /\ hideTimer = FALSE
    /\ btnDisabled = FALSE
    /\ spinnerShown = FALSE
    /\ historyShown = FALSE
    /\ calls = <<>>
    /\ lastFetch = [c \in Currencies |-> Fetches(None)]
    /\ recorded = <<>>
    /\ nConverts = 0
    /\ nFetches = 0
    /\ reloaded = FALSE
    /\ now = 0

(***************************************************************************)
(* handleConvert                                                           *)
(***************************************************************************)
\* Fails with hideLoading() left out
FailsKeepsLoading(message, loading, result) ==
    /\ errorMessage' = message
    /\ errorShown' = TRUE
    /\ hideTimer' = TRUE
    /\ resultShown' = result
    /\ UNCHANGED <<btnDisabled, spinnerShown>>
    /\ UNCHANGED historyVars

\* showError(message), and hideLoading() when the loading state was shown;
\* result is whether the result section is shown when the error is raised
Fails(message, loading, result) ==
    /\ errorMessage' = message
    /\ errorShown' = TRUE
    /\ hideTimer' = TRUE
    /\ resultShown' = result
    /\ IF loading THEN btnDisabled' = FALSE /\ spinnerShown' = FALSE
       ELSE UNCHANGED <<btnDisabled, spinnerShown>>
    /\ UNCHANGED historyVars

\* displayResult, saveToHistory, hideLoading; error is whether the error
\* alert is shown at that time.  On a conversionHistory that is no array
\* unshift throws a TypeError, which the catch clause of handleConvert shows.
Succeeds(amount, from, to, out, error) ==
    LET item == HistoryItem(amount, from, out.convertedValue, to, out.rate, now)
        hist == HistoryAfterSave(conversionHistory, item)
    IN  /\ resultShown' = TRUE
        /\ recorded' = Append(recorded, item)
        /\ btnDisabled' = FALSE
        /\ spinnerShown' = FALSE
        /\ historyKind' = historyKind
        /\ IF historyKind = "array"
           THEN /\ errorShown' = error
                /\ UNCHANGED <<errorMessage, hideTimer>>
                /\ conversionHistory' = hist
                /\ storedHistory' = StoredAfterSave(hist)
                /\ historyShown' = ShownAfterDisplay("array", hist, historyShown)
           ELSE /\ errorShown' = TRUE
                /\ errorMessage' = MsgTypeError
                /\ hideTimer' = TRUE
                /\ UNCHANGED <<conversionHistory, storedHistory, historyShown>>

\* What the call ends as once getExchangeRates has thrown or returned rates.
Ending(amount, to, thrown, rates) ==
    IF thrown THEN "failed"
    ELSE IF Compute(amount, to, rates).kind = "threw" THEN "threw"
    ELSE "converted"

\* The part of handleConvert that follows `await getExchangeRates`, for the
\* call with these locals: getExchangeRates threw, or returned rates.
Continue(amount, from, to, thrown, rates, error, result) ==
    LET ending == Ending(amount, to, thrown, rates)
    IN  IF ending = "failed" THEN Fails(MsgNetwork, TRUE, result)
        ELSE IF ending = "threw" THEN Fails(MsgTypeError, TRUE, result)
        ELSE Succeeds(amount, from, to, Compute(amount, to, rates), error)

\* The locals of a suspended call: amount, fromCurrency, toCurrency of
\* handleConvert and now of getExchangeRates.
Call(amount, from, to) == [amount |-> amount, from |-> from, to |-> to, now |-> now]

\* handleConvert, from its first line to its first suspension on the network
\* (a cache hit resumes it with no other handler in between).  text is the
\* value of the amount field; from and to are the selection it reads.
HandleConvert(text, from, to, cap) ==
    LET amount == Parsed(text)
        verdict == ValidateInput(text, amount)
    IN  IF verdict # "ok"
        THEN /\ Fails(verdict, FALSE, FALSE)
             /\ UNCHANGED <<cacheVars, callVars, nConverts>>
        ELSE IF SameCurrency(from, to)
        THEN /\ Fails(MsgSameCurrency, FALSE, FALSE)
             /\ UNCHANGED <<cacheVars, callVars, nConverts>>
        ELSE /\ nConverts < cap
             /\ nConverts' = nConverts + 1
             /\ UNCHANGED <<cacheVars, lastFetch>>
             /\ IF CacheValid(exchangeRatesCache, from, now)
                THEN /\ UNCHANGED <<calls, nFetches>>
                     /\ Continue(amount, from, to, FALSE, exchangeRatesCache[from].rates,
                                 FALSE, FALSE)
                ELSE /\ calls' = Append(calls, Call(amount, from, to))
                     /\ nFetches' = nFetches + 1
                     /\ errorShown' = FALSE
                     /\ resultShown' = FALSE
                     /\ btnDisabled' = TRUE
                     /\ spinnerShown' = TRUE
                     /\ UNCHANGED <<errorMessage, hideTimer, historyVars>>

\* click on convertBtn (a disabled button receives no click)
ClickConvert(texts, cap) ==
    /\ ~btnDisabled
    /\ \E text \in texts : HandleConvert(text, fromCurrency, toCurrency, cap)
    /\ UNCHANGED <<prefVars, selectVars, reloaded, now>>

\* keypress of Enter in the amount field
EnterKey(texts, cap) ==
    /\ \E text \in texts : HandleConvert(text, fromCurrency, toCurrency, cap)
    /\ UNCHANGED <<prefVars, selectVars, reloaded, now>>

\* The provider answers the fetch of call i: getExchangeRates resumes, fills
\* the cache or throws, and handleConvert runs to its end.
ResolveWith(i, resp) ==
        LET c == calls[i]
            thrown == resp.kind # "json"
        IN  /\ exchangeRatesCache' = CacheAfterFetch(exchangeRatesCache, c.from, c.now, resp)
            /\ calls' = Remove(calls, i)
            /\ lastFetch' = IF thrown THEN lastFetch
                            ELSE [lastFetch EXCEPT ![c.from] = Fetches(c.now)]
            /\ Continue(c.amount, c.from, c.to, thrown, RatesOf(resp), errorShown, resultShown)
            /\ UNCHANGED <<prefVars, selectVars, nConverts, nFetches, reloaded, now>>

Resolve(responses) == \E i \in 1..Len(calls), resp \in responses : ResolveWith(i, resp)

(***************************************************************************)
(* Selection, preferences, history, timers, the clock, reloading.          *)
(***************************************************************************)
\* click on swapBtn
HandleSwap(texts, cap) ==
    LET fromValue == fromCurrency
        toValue == toCurrency
        swapped == SwappedSelection(fromValue, toValue)
    IN  /\ fromCurrency' = swapped[1]
        /\ toCurrency' = swapped[2]
        /\ lastFromCurrency' = SavedPair(swapped[1], swapped[2])[1]
        /\ lastToCurrency' = SavedPair(swapped[1], swapped[2])[2]
        /\ IF resultShown
           THEN \E text \in texts : HandleConvert(text, swapped[1], swapped[2], cap)
           ELSE UNCHANGED <<cacheVars, historyVars, viewVars, callVars, nConverts>>
        /\ UNCHANGED <<reloaded, now>>

\* the user picks another option of a select: its change event saves the pair
ChangeFrom ==
    \E c \in Currencies \ {fromCurrency} :
        /\ fromCurrency' = c
        /\ lastFromCurrency' = SavedPair(c, toCurrency)[1]
        /\ lastToCurrency' = SavedPair(c, toCurrency)[2]
        /\ UNCHANGED <<toCurrency, cacheVars, historyVars, viewVars, callVars, nConverts,
                       reloaded, now>>

ChangeTo ==
    \E c \in Currencies \ {toCurrency} :
        /\ toCurrency' = c
        /\ lastFromCurrency' = SavedPair(fromCurrency, c)[1]
        /\ lastToCurrency' = SavedPair(fromCurrency, c)[2]
        /\ UNCHANGED <<fromCurrency, cacheVars, historyVars, viewVars, callVars, nConverts,
                       reloaded, now>>

\* click on clearHistoryBtn; confirmed is the answer to confirm()
ClearHistoryWith(confirmed) ==
    /\ IF confirmed
       THEN /\ conversionHistory' = <<>>
            /\ historyKind' = "array"
            /\ storedHistory' = StoredAfterClear
            /\ historyShown' = ShownAfterDisplay("array", <<>>, historyShown)
            /\ recorded' = <<>>
       ELSE UNCHANGED historyVars
    /\ UNCHANGED <<cacheVars, prefVars, selectVars, viewVars, callVars, nConverts,
                   reloaded, now>>

ClearHistory == \E confirmed \in BOOLEAN : ClearHistoryWith(confirmed)

\* a setTimeout callback of showError runs hideError; others may be pending
HideErrorTimer ==
    /\ hideTimer
    /\ errorShown' = FALSE
    /\ hideTimer' \in BOOLEAN
    /\ UNCHANGED <<cacheVars, historyVars, prefVars, selectVars, resultShown, errorMessage,
                   btnDisabled, spinnerShown, callVars, nConverts, reloaded, now>>

\* time passes
Tick(instants) ==
    \E d \in {1, CACHE_DURATION - 1} :
        /\ now + d \in instants
        /\ now' = now + d
        /\ UNCHANGED <<cacheVars, historyVars, prefVars, selectVars, viewVars, callVars,
                       nConverts, reloaded>>

\* The page is loaded again: the script's state starts afresh, the markup is
\* back to its defaults, pending callbacks are gone, and init() runs
\* loadFromLocalStorage and displayHistory.
Reload ==
    LET pair == LoadPair(lastFromCurrency, lastToCurrency, <<DefaultFrom, DefaultTo>>)
        hist == LoadHistory(storedHistory)
    IN  /\ reloaded' = TRUE
        /\ exchangeRatesCache' = [c \in Currencies |-> Undefined]
        /\ conversionHistory' = hist
        /\ historyKind' = LoadKind(storedHistory)
        /\ historyShown' = ShownAfterDisplay(LoadKind(storedHistory), hist, FALSE)
        /\ fromCurrency' = pair[1]
        /\ toCurrency' = pair[2]
        /\ resultShown' = FALSE
        /\ errorShown' = FALSE
        /\ errorMessage' = ""
        /\ hideTimer' = FALSE
        /\ btnDisabled' = FALSE
        /\ spinnerShown' = FALSE
        /\ calls' = <<>>
        /\ lastFetch' = [c \in Currencies |-> Fetches(None)]
        /\ UNCHANGED <<prefVars, storedHistory, recorded, nConverts, nFetches, now>>

\* Something other than this page's handlers (another page of the origin, an
\* interrupted write) leaves a text under the key 'conversionHistory'.
CorruptStorage ==
    \E text \in CorruptTexts :
        /\ storedHistory' = Stored(text)
        /\ UNCHANGED <<conversionHistory, historyKind, historyShown, recorded, cacheVars,
                       prefVars, selectVars, viewVars, callVars, nConverts, reloaded, now>>

(***************************************************************************)
(* Specifications.  The same handlers, over different inputs.              *)
(***************************************************************************)
Rates092 == [c \in Currencies |-> Text092]

\* The instants the clock shows: around 0 and around CACHE_DURATION.
Instants == {0, 1, CACHE_DURATION - 1, CACHE_DURATION}

MaxConverts == 2

Texts == {Text100}
Responses == {Failure(k) : k \in FailureKinds} \cup {Body(Undefined), Body(Rates092)}

Next ==
    \/ ClickConvert(Texts, MaxConverts)
    \/ EnterKey(Texts, MaxConverts)
    \/ Resolve(Responses)
    \/ HandleSwap(Texts, MaxConverts)
    \/ ChangeFrom
    \/ ChangeTo
    \/ ClearHistory
    \/ HideErrorTimer
    \/ Tick(Instants)
    \/ Reload

Spec == Init /\ [][Next]_vars

\* The same page with valid and invalid texts typed into the amount field
\* and a provider whose rates are all 1.5, at one instant of the clock.
Rates15 == [c \in Currencies |-> Text15]
AmountConverts == 1
AmountResponses == {Failure("reject"), Body(Rates15)}
InvalidTexts ==
    {TextEmpty, TextBlank, TextLetters, TextNegative, TextZero, TextHalfCent,
     TextOverMax}
TypedTexts == InvalidTexts \cup {TextCent, TextMax}

NextAmounts ==
    \/ ClickConvert(TypedTexts, AmountConverts)
    \/ EnterKey(TypedTexts, AmountConverts)
    \/ Resolve(AmountResponses)
    \/ HandleSwap(TypedTexts, AmountConverts)
    \/ ChangeFrom
    \/ ChangeTo
    \/ ClearHistory
    \/ HideErrorTimer
    \/ Reload

SpecAmounts == Init /\ [][NextAmounts]_vars

\* The same page through enough conversions to fill the history and push
\* entries out of it, with a provider that always answers.
HistoryConverts == 6
HistoryResponses == {Body(Rates092)}
HistoryInstants == {0, 1}

NextHistory ==
    \/ ClickConvert(Texts, HistoryConverts)
    \/ Resolve(HistoryResponses)
    \/ HandleSwap(Texts, HistoryConverts)
    \/ ClearHistory
    \/ Tick(HistoryInstants)
    \/ Reload

SpecHistory == Init /\ [][NextHistory]_vars

\* The same page over a storage that can be corrupted between loads.
StorageConverts == 2

NextStorage ==
    \/ ClickConvert(Texts, StorageConverts)
    \/ Resolve(HistoryResponses)
    \/ ClearHistory
    \/ CorruptStorage
    \/ Reload

SpecStorage == Init /\ [][NextStorage]_vars

\* One load of the page with a provider that answers every fetch in the end,
\* with a body or with a failure.
LiveConverts == 2
LiveResponses == {Failure("reject"), Body(Rates092)}

NextLive ==
    \/ ClickConvert(Texts, LiveConverts)
    \/ EnterKey(Texts, LiveConverts)
    \/ Resolve(LiveResponses)
    \/ HandleSwap(Texts, LiveConverts)
    \/ ChangeFrom
    \/ ChangeTo
    \/ ClearHistory
    \/ HideErrorTimer

SpecLive == Init /\ [][NextLive]_vars /\ WF_vars(Resolve(LiveResponses))

\* The page's conversions and the cache: calls side by side, every answer of
\* the provider, entries that age, reloads.
CacheConverts == 2

NextCache ==
    \/ ClickConvert(Texts, CacheConverts)
    \/ EnterKey(Texts, CacheConverts)
    \/ Resolve(Responses)
    \/ HandleSwap(Texts, CacheConverts)
    \/ Tick(Instants)
    \/ Reload

SpecCache == Init /\ [][NextCache]_vars

\* The page's selection and its persisted pair.
PrefConverts == 2

NextPrefs ==
    \/ ClickConvert(Texts, PrefConverts)
    \/ Resolve(HistoryResponses)
    \/ HandleSwap(Texts, PrefConverts)
    \/ ChangeFrom
    \/ ChangeTo
    \/ Reload

SpecPrefs == Init /\ [][NextPrefs]_vars

(***************************************************************************)
(* Properties.                                                             *)
(***************************************************************************)
Abs(n) == IF n < 0 THEN -n ELSE n

\* C1, as stated: two convert calls with the same fromCurrency issued within
\* CACHE_DURATION of each other cause one provider fetch in total.  Every
\* suspended call has made its own fetch, so no two of them for the same base
\* currency may have started within CACHE_DURATION of each other.
C1_OneFetchPerWindow ==
    \A i, j \in 1..Len(calls) :
        (i # j /\ calls[i].from = calls[j].from)
            => Abs(calls[i].now - calls[j].now) >= CACHE_DURATION

\* C1, amended: a convert call that passes validation makes no fetch when the
\* fetch last answered successfully for its base currency (on this page load)
\* was started less than CACHE_DURATION before the call, and makes exactly one
\* fetch otherwise.
C1_FetchUnlessFresh ==
    [][nConverts' = nConverts + 1 =>
         LET good == lastFetch[fromCurrency'].good
         IN  IF good # None /\ now - good < CACHE_DURATION
             THEN nFetches' = nFetches /\ calls' = calls
             ELSE nFetches' = nFetches + 1 /\ Len(calls') = Len(calls) + 1]_vars

\* two calls have passed validation and ended in a result, on one fetch
C1_Witness ==
    /\ nConverts = 2 /\ nFetches = 1 /\ calls = <<>>
    /\ Len(recorded) = 2 /\ recorded[1].fromCurrency = recorded[2].fromCurrency

\* C2: when the provider fetch fails (transport failure, non-success status,
\* unreadable body) the call shows the network error message, the cache is as
\* it was, and neither the history nor its persisted form changes.
C2_FailedFetchLeavesState ==
    [][\A i \in 1..Len(calls), k \in FailureKinds :
          ResolveWith(i, Failure(k)) =>
              /\ errorShown' /\ errorMessage' = MsgNetwork
              /\ exchangeRatesCache' = exchangeRatesCache
              /\ conversionHistory' = conversionHistory
              /\ storedHistory' = storedHistory]_vars

\* a fetch has failed while an earlier entry sat in the cache, and the entry
\* is still there
C2_Witness ==
    /\ errorShown /\ errorMessage = MsgNetwork /\ calls = <<>>
    /\ nFetches = 2 /\ Len(recorded) = 1
    /\ \E b \in Currencies : exchangeRatesCache[b] # Undefined

\* C3: a success response whose body has no rates field is a network error:
\* the call shows the network error message and no cache entry is written for
\* the base currency.
C3_MissingRatesIsNetworkError ==
    [][\A i \in 1..Len(calls) :
          ResolveWith(i, Body(Undefined)) =>
              /\ errorMessage' = MsgNetwork
              /\ exchangeRatesCache' = exchangeRatesCache]_vars

\* C4: for every base currency the timestamp stored in the cache never
\* decreases from one cache write to the next.
C4_TimestampNeverDecreases ==
    [][\A b \in Currencies :
          (exchangeRatesCache[b] # Undefined /\ exchangeRatesCache'[b] # Undefined)
              => exchangeRatesCache'[b].timestamp >= exchangeRatesCache[b].timestamp]_vars

\* C5: the history holds at most MAX_HISTORY_ITEMS entries, newest first: it
\* is the last MAX_HISTORY_ITEMS recorded entries (all of them when there are
\* fewer) in reverse order of recording, the older ones being gone.
C5_HistoryIsNewestFive ==
    LET n == Len(recorded)
        k == IF n > MAX_HISTORY_ITEMS THEN MAX_HISTORY_ITEMS ELSE n
    IN  /\ Len(conversionHistory) <= MAX_HISTORY_ITEMS
        /\ Len(conversionHistory) = k
        /\ \A i \in 1..k : conversionHistory[i] = recorded[n + 1 - i]

\* more entries were recorded than the history holds, and the entry recorded
\* first differs from the oldest one kept
C5_Witness ==
    /\ Len(recorded) > MAX_HISTORY_ITEMS
    /\ Len(conversionHistory) = MAX_HISTORY_ITEMS
    /\ recorded[1] # conversionHistory[MAX_HISTORY_ITEMS]
    /\ conversionHistory[1] # conversionHistory[2]

\* C6: a convert call with an amount that is absent, not a number, below
\* MIN_AMOUNT or above MAX_AMOUNT shows a validation message about the
\* amount, makes no fetch, and leaves the cache, the history and its
\* persisted form as they were.
C6_InvalidAmountRejected ==
    [][\A t \in InvalidTexts :
          (\/ ClickConvert({t}, AmountConverts)
           \/ EnterKey({t}, AmountConverts)
           \/ (resultShown /\ HandleSwap({t}, AmountConverts)))
          => /\ errorShown'
             /\ errorMessage' \in ValidationMessages \ {MsgSameCurrency}
             /\ nFetches' = nFetches /\ calls' = calls
             /\ exchangeRatesCache' = exchangeRatesCache
             /\ conversionHistory' = conversionHistory
             /\ storedHistory' = storedHistory]_vars

\* an amount below MIN_AMOUNT was refused after a conversion had filled the
\* cache and the history
C6_Witness ==
    /\ errorShown /\ errorMessage = MsgAtLeast
    /\ nFetches = 1 /\ calls = <<>> /\ Len(conversionHistory) = 1
    /\ \E b \in Currencies : exchangeRatesCache[b] # Undefined

\* C7: a convert call made while the two selected currencies are equal shows
\* a validation message (the one about the currencies when the amount is
\* valid), makes no fetch and records no history entry.
C7_SameCurrencyRejected ==
    [][\A t \in TypedTexts :
          (/\ fromCurrency = toCurrency
           /\ \/ ClickConvert({t}, AmountConverts)
              \/ EnterKey({t}, AmountConverts)
              \/ (resultShown /\ HandleSwap({t}, AmountConverts)))
          => /\ errorShown'
             /\ errorMessage' \in ValidationMessages
             /\ ValidateInput(t, Parsed(t)) = "ok" => errorMessage' = MsgSameCurrency
             /\ nFetches' = nFetches /\ calls' = calls
             /\ conversionHistory' = conversionHistory
             /\ recorded' = recorded]_vars

\* equal currencies were refused after a conversion
C7_Witness ==
    /\ errorShown /\ errorMessage = MsgSameCurrency
    /\ fromCurrency = toCurrency
    /\ nConverts = 1 /\ nFetches = 1 /\ calls = <<>> /\ Len(conversionHistory) = 1

\* C8: every recorded conversion has convertedValue equal to amount * rate
\* rounded half-up to two decimals, amount * rate being the exact product of
\* the amount and the rate the call worked with.
C8_ConvertedIsRoundedProduct ==
    \A i \in 1..Len(recorded) :
        LET a == recorded[i].amount
            r == recorded[i].rate
            product == BMul(a.mag, r.mag)
            hundredths == BShr(BAdd(BMulSmall(product, 200), BShl(<<1>>, 2 * FracBits)),
                               2 * FracBits + 1)
        IN  recorded[i].convertedValue =
                [str |-> "fixed2", neg |-> a.neg # r.neg, hundredths |-> hundredths]

\* C11: when the persisted history is corrupt at startup, the load resets the
\* history to an empty sequence (on which later record and clear operations
\* work as on any array).
C11_CorruptHistoryResets ==
    [][(Reload /\ storedHistory # Null /\ storedHistory.string \in CorruptTexts)
          => (historyKind' = "array" /\ conversionHistory' = <<>>)]_vars

\* C12: a confirmed clear empties the history in memory and removes the
\* persisted history key; a declined one leaves both as they were.
C12_ClearEmptiesOrLeaves ==
    [][/\ ClearHistoryWith(TRUE) =>
              (conversionHistory' = <<>> /\ historyKind' = "array" /\ storedHistory' = Null)
       /\ ClearHistoryWith(FALSE) =>
              UNCHANGED <<conversionHistory, historyKind, storedHistory>>]_vars

\* a conversion's result is still on the page and its history entry has been
\* cleared, in memory and in storage
C12_Witness ==
    /\ resultShown /\ nConverts >= 1
    /\ conversionHistory = <<>> /\ storedHistory = Null /\ ~historyShown

\* C13: a call that passes validation is served from the cache only when the
\* entry of its base currency is younger than CACHE_DURATION; with an entry of
\* that age or older it fetches, as with none.  A cache entry changes only
\* when a fetch for its base currency is answered with a body (or the page,
\* and its cache with it, is loaded anew); a failed fetch changes no entry.
C13_StaleEntryNotServed ==
    [][/\ nConverts' = nConverts + 1 =>
              LET entry == exchangeRatesCache[fromCurrency']
                  fresh == entry # Undefined /\ now - entry.timestamp < CACHE_DURATION
              IN  /\ nFetches' = nFetches => fresh
                  /\ ~fresh => /\ nFetches' = nFetches + 1
                               /\ Len(calls') = Len(calls) + 1
                               /\ ~resultShown'
                               /\ exchangeRatesCache' = exchangeRatesCache
       /\ \A b \in Currencies :
              exchangeRatesCache'[b] # exchangeRatesCache[b] =>
                  \/ Reload
                  \/ \E i \in 1..Len(calls), resp \in Responses :
                         resp.kind = "json" /\ calls[i].from = b /\ ResolveWith(i, resp)
       /\ \A i \in 1..Len(calls), k \in FailureKinds :
              ResolveWith(i, Failure(k)) => exchangeRatesCache' = exchangeRatesCache]_vars

\* an entry has reached the age CACHE_DURATION, the next call for its base
\* currency fetched, the fetch failed, and the entry is still in the cache
C13_Witness ==
    /\ errorShown /\ errorMessage = MsgNetwork /\ calls = <<>>
    /\ nConverts = 2 /\ nFetches = 2 /\ Len(recorded) = 1
    /\ recorded[1].fromCurrency = fromCurrency
    /\ exchangeRatesCache[fromCurrency] # Undefined
    /\ now - exchangeRatesCache[fromCurrency].timestamp >= CACHE_DURATION
    /\ \A b \in Currencies \ {fromCurrency} : exchangeRatesCache[b] = Undefined

\* C14: a convert call makes at most one fetch: a step makes a fetch only by
\* starting a call that waits for it, and the answer to a fetch, good or bad,
\* ends its call without another fetch.  A call whose base currency has no
\* fresh cache entry fetches even while another call for that currency is
\* waiting, and every fetch answered with a body writes the cache entry of
\* its base currency, whatever was there.
C14_OneFetchPerCallNoCoalescing ==
    [][/\ nFetches' \in {nFetches, nFetches + 1}
       /\ nFetches' = nFetches + 1 =>
              (nConverts' = nConverts + 1 /\ Len(calls') = Len(calls) + 1)
       /\ nConverts' \in {nConverts, nConverts + 1}
       /\ (/\ nConverts' = nConverts + 1
           /\ \E i \in 1..Len(calls) : calls[i].from = fromCurrency'
           /\ ~CacheValid(exchangeRatesCache, fromCurrency', now))
              => (nFetches' = nFetches + 1 /\ calls' = Append(calls, calls'[Len(calls')]))
       /\ \A i \in 1..Len(calls), resp \in Responses :
              ResolveWith(i, resp) =>
                  /\ nFetches' = nFetches
                  /\ calls' = Remove(calls, i)
                  /\ resp.kind = "json" =>
                         exchangeRatesCache'[calls[i].from] =
                             [rates |-> RatesOf(resp), timestamp |-> calls[i].now]]_vars

\* two calls for one base currency each fetched; the one started later has
\* been answered and has written the entry while the earlier one still waits
C14_Witness ==
    /\ nConverts = 2 /\ nFetches = 2 /\ Len(calls) = 1
    /\ exchangeRatesCache[calls[1].from] # Undefined
    /\ exchangeRatesCache[calls[1].from].timestamp > calls[1].now

\* C15, as stated: from any state, two consecutive swaps restore the selection
\* and the persisted pair.
C15_TwoSwapsRestoreStored ==
    LET once  == SwappedSelection(fromCurrency, toCurrency)
        twice == SwappedSelection(once[1], once[2])
    IN  /\ twice = <<fromCurrency, toCurrency>>
        /\ SavedPair(twice[1], twice[2]) = <<lastFromCurrency, lastToCurrency>>

\* C15, amended: every change of a select and every swap leaves the persisted
\* pair equal to the selected pair; a swap exchanges the two selections, and
\* starts a conversion only when a result is shown; a change starts none.
\* From any state, two consecutive swaps restore the selection and leave the
\* persisted pair equal to it, which is the pair persisted before wherever
\* both keys were present.
C15_SwapAndChangeSavePair ==
    /\ [](LET once  == SwappedSelection(fromCurrency, toCurrency)
              twice == SwappedSelection(once[1], once[2])
              saved == SavedPair(twice[1], twice[2])
          IN  /\ twice = <<fromCurrency, toCurrency>>
              /\ saved = <<Stored(fromCurrency), Stored(toCurrency)>>
              /\ lastFromCurrency # Null => saved[1] = lastFromCurrency
              /\ lastToCurrency # Null => saved[2] = lastToCurrency)
    /\ [][/\ (ChangeFrom \/ ChangeTo \/ HandleSwap(Texts, PrefConverts)) =>
                 /\ lastFromCurrency' = Stored(fromCurrency')
                 /\ lastToCurrency' = Stored(toCurrency')
          /\ HandleSwap(Texts, PrefConverts) =>
                 /\ fromCurrency' = toCurrency /\ toCurrency' = fromCurrency
                 /\ ~resultShown =>
                        UNCHANGED <<nConverts, nFetches, calls, viewVars, historyVars>>
          /\ (ChangeFrom \/ ChangeTo) =>
                 UNCHANGED <<nConverts, nFetches, calls, viewVars, historyVars>>]_vars

\* a swap made while a result was shown has exchanged the default selection,
\* saved it, and started the second conversion, which waits for its fetch
C15_Witness ==
    /\ ~reloaded /\ fromCurrency = DefaultTo /\ toCurrency = DefaultFrom
    /\ lastFromCurrency = Stored(DefaultTo) /\ lastToCurrency = Stored(DefaultFrom)
    /\ nConverts = 2 /\ Len(calls) = 1 /\ calls[1].from = DefaultTo
    /\ Len(recorded) = 1 /\ recorded[1].fromCurrency = DefaultFrom

\* C16: in every reachable state, while some call waits for its fetch the
\* convert button is disabled and the loading indicator is shown.
C16_LoadingWhileInFlight == calls # <<>> => (btnDisabled /\ spinnerShown)

\* C17: with every fetch answered in the end, the calls that wait for a fetch
\* all come to their end.  A call ends (on the answer to its fetch, or at
\* once on a cache hit) either with the result shown and a new entry at the
\* front of the history, or with the error shown and the history and its
\* persisted form as they were.  Whenever no call waits for a fetch the
\* loading indicator is hidden and the convert button is enabled.
C17_ConversionsFinish ==
    /\ [](calls = <<>> => (~btnDisabled /\ ~spinnerShown))
    /\ [][(\/ \E i \in 1..Len(calls), resp \in LiveResponses : ResolveWith(i, resp)
           \/ (nConverts' = nConverts + 1 /\ calls' = calls))
          => \/ /\ resultShown'
                /\ Len(conversionHistory') >= 1
                /\ conversionHistory' =
                       HistoryAfterSave(conversionHistory, conversionHistory'[1])
                /\ recorded' = Append(recorded, conversionHistory'[1])
                /\ storedHistory' = StoredAfterSave(conversionHistory')
             \/ /\ errorShown'
                /\ conversionHistory' = conversionHistory
                /\ storedHistory' = storedHistory
                /\ recorded' = recorded]_vars
    /\ (calls # <<>>) ~> (calls = <<>>)

\* both calls have ended, one with an entry in the history and one with the
\* network error, and the button is enabled again
C17_Witness ==
    /\ nConverts = LiveConverts /\ calls = <<>>
    /\ Len(conversionHistory) = 1 /\ errorShown /\ errorMessage = MsgNetwork
    /\ ~btnDisabled /\ ~spinnerShown

\* C9: the persisted history mirrors the history in memory: loading it into
\* a fresh page gives the sequence the page holds, in the same order.
C9_StoredHistoryMirrors == LoadHistory(storedHistory) = conversionHistory

\* the page was loaded again after two conversions (its cache is empty) and
\* holds both
C9_Witness ==
    /\ reloaded /\ Len(conversionHistory) = 2
    /\ \A b \in Currencies : exchangeRatesCache[b] = Undefined

\* C10: the persisted pair, once written, is the selected pair (every change
\* of the selection saves it, a reload restores it); while a key is absent
\* the selection it would restore is the default.
C10_PreferencesMirror ==
    /\ lastFromCurrency # Null => lastFromCurrency = Stored(fromCurrency)
    /\ lastToCurrency # Null => lastToCurrency = Stored(toCurrency)
    /\ lastFromCurrency = Null => fromCurrency = DefaultFrom
    /\ lastToCurrency = Null => toCurrency = DefaultTo

\* a pair other than the default was saved and the page loaded again
C10_Witness ==
    /\ reloaded /\ lastFromCurrency # Null
    /\ fromCurrency # DefaultFrom /\ toCurrency # DefaultTo
    /\ \A b \in Currencies : exchangeRatesCache[b] = Undefined
====
